---- MODULE Spec2Model ----
(***************************************************************************)
(* Model of pypit.arms.ARMS (pypit/arms.py): the multislit reduction      *)
(* driver.  One run of ARMS is a sequential program; every block of the    *)
(* function body is one action and `pc` is the position in the body.       *)
(* Collaborators defined outside arms.py (the masters on disk, the         *)
(* ScienceExposure Master* methods, UpdateMasters) are modelled at their   *)
(* interface.  A calibration product is a value [s, o]: the setup it       *)
(* belongs to and its origin ("built" in this run, "disk" from an earlier  *)
(* run); the build functions are pure, so one setup has one built value.   *)
(***************************************************************************)
EXTENDS Integers, Sequences, FiniteSets, TLC

\* ------------------------------------------------------------------ bounds
NSci == 2
NDet == 2

Sci  == 1..NSci
Dets == 1..NDet
Cfgs == {"A", "B"}
StdRows  == {11, 12}
StdLists == {<< >>, <<11>>, <<12, 11>>}
NoDetnum == {0}

Setups  == Cfgs \X Dets
CKinds  == {"bias", "arc", "bpm", "trace"}
EKinds  == {"wvcalib", "tilts", "flat", "wave"}
Kinds   == CKinds \cup EKinds
Fields  == {"lordloc", "maskslits", "wvcalib", "tilts", "mspixelflatnrm", "mswave"}

NoSetup == <<"-", 0>>
None    == [s |-> NoSetup, o |-> "none"]
Val(S, o) == [s |-> S, o |-> o]

Range(q) == {q[i] : i \in DOMAIN q}

VARIABLES
  \* arguments, settings and observation table
  cfg, stdList, detnum, masters, supplied, reuseMaster, flux,
  \* local variables of ARMS
  pc, sc, det, kk, setup, std_idx, numsci,
  sciexp,      \* sciexp[e]: the slot still holds its ScienceExposure
  slf,         \* the per-detector frames of every ScienceExposure object
  std_keys,    \* list(std_dict.keys())
  stdslf,      \* std_dict
  basenames,
  calib_dict,
  store,       \* masters saved on disk in this run
  handed,      \* frames handed on by UpdateMasters, per setup
  files, stdfiles, sensfunc, status,
  ret,         \* the status ARMS returned (-1: nothing returned)
  \* history: builds, disk queries, standard reductions, values observed,
  \* completed co-reductions, exposures whose processing raised, setups whose
  \* master on disk was found malformed
  ncomp, nquery, nstdred, seen, coDone, failed, corrupt,
  \* pypeit.core.wavecal.waveio: the arguments of one call (lines, skip, all,
  \* unknown, NIST), the line-list files that exist, the position in the
  \* function, the number of names the loop has been through, the local
  \* `lists` and what the call gave back
  lines, skip, all, unknown, NIST, isfile, wpc, line, lists, out

inputs == <<stdList, detnum, masters, supplied, reuseMaster>>
hist   == <<ncomp, nquery, nstdred, seen, coDone, failed, corrupt>>
arms   == <<cfg, flux, pc, sc, det, kk, setup, std_idx, numsci,
           sciexp, slf, std_keys, stdslf, basenames,
           calib_dict, store, handed, files, stdfiles, sensfunc, status, ret>>
waveio == <<lines, skip, all, unknown, NIST, isfile, wpc, line, lists, out>>
vars   == <<cfg, stdList, detnum, masters, supplied, reuseMaster, flux,
           pc, sc, det, kk, setup, std_idx, numsci,
           sciexp, slf, std_keys, stdslf, basenames,
           calib_dict, store, handed, files, stdfiles, sensfunc, status, ret,
           ncomp, nquery, nstdred, seen, coDone, failed, corrupt,
           lines, skip, all, unknown, NIST, isfile, wpc, line, lists, out>>

\* ------------------------------------------------------------- the inputs
\* arsetup.instr_setup(sci_ID, det, ...): the setup of an exposure on a detector.
\* cfg[e] is the instrument configuration of science row e in fitstbl; it is
\* drawn when the exposure loop first reads it ("-" before that), and the
\* configuration of the first row is given the name "A".
instr_setup(e, d) == <<cfg[e], d>>

CfgChoices(e) == IF e = 1 THEN {"A"} ELSE Cfgs

\* settings: masters reuse / force, with the masters a previous run left on disk
MasterSettings ==
  { [reuse |-> FALSE, force |-> FALSE, disk |-> FALSE],
    [reuse |-> TRUE,  force |-> FALSE, disk |-> FALSE],
    [reuse |-> TRUE,  force |-> FALSE, disk |-> TRUE],
    [reuse |-> FALSE, force |-> TRUE,  disk |-> TRUE] }

EmptyFn == [x \in {} |-> None]

NoFrames == [d \in Dets |-> None]

\* arsciexp.ScienceExposure(...): every per-detector slot starts as None
NewExposure ==
  [lordloc |-> NoFrames, maskslits |-> NoFrames, wvcalib |-> NoFrames,
   tilts |-> NoFrames, mspixelflatnrm |-> NoFrames, mswave |-> NoFrames,
   specobjs |-> {}]

\* a standard's ScienceExposure: `ref` is the science exposure whose frame
\* lists its attributes are bound to (0: its own, still None), `by` the
\* science exposure in whose detector loop it was reduced on each detector
NewStandard ==
  [extracted |-> [d \in Dets |-> FALSE], ref |-> 0, specobjs |-> {},
   by |-> [d \in Dets |-> 0]]

\* no call of a waveio function is under way
NoCall ==
  /\ lines = << >> /\ skip = FALSE /\ all = FALSE /\ unknown = FALSE
  /\ NIST = FALSE /\ isfile = {} /\ wpc = "none" /\ line = 0
  /\ lists = << >>
  /\ out = [how |-> "none", rows |-> << >>]

Init ==
  /\ NoCall
  /\ cfg = [e \in Sci |-> "-"]
  /\ stdList \in [Sci -> StdLists]
  /\ detnum \in {NoDetnum} \cup SUBSET Dets
  /\ masters \in MasterSettings
  /\ supplied \in BOOLEAN
  /\ reuseMaster \in BOOLEAN
  /\ flux = "unread"
  /\ pc = "init" /\ sc = 0 /\ det = 0 /\ kk = 0
  /\ setup = NoSetup
  /\ std_idx = [bound |-> FALSE, list |-> TRUE, v |-> << >>]
  /\ numsci = 0
  /\ sciexp = [e \in Sci |-> TRUE]
  /\ slf = [e \in Sci |-> NewExposure]
  /\ std_keys = << >>
  /\ stdslf = EmptyFn
  /\ basenames = << >>
  /\ calib_dict = EmptyFn
  /\ store = EmptyFn
  /\ handed = EmptyFn
  /\ files = EmptyFn
  /\ stdfiles = EmptyFn
  /\ sensfunc = [built |-> FALSE, std |-> 0, setup |-> NoSetup]
  /\ status = 0
  /\ ret = -1
  /\ ncomp = EmptyFn
  /\ nquery = EmptyFn
  /\ nstdred = EmptyFn
  /\ seen = EmptyFn
  /\ coDone = {}
  /\ failed = {}
  /\ corrupt = {}


\* ------------------------------------------------------------ helpers
\* ScienceExposure._basename of the exposure of science row e: the name of
\* its output file, one per exposure (files are keyed by it)
Basename(e) == e

\* dict update d[k] = v
Put(d, k, v) == [x \in DOMAIN d \cup {k} |-> IF x = k THEN v ELSE d[x]]

\* the history counters: the calls counted for key x (0 when none yet), and
\* the values observed for key x
Count(c, x) == IF x \in DOMAIN c THEN c[x] ELSE 0
Bump(c, x) == Put(c, x, Count(c, x) + 1)
Seen(x) == IF x \in DOMAIN seen THEN seen[x] ELSE {}

\* FirstStd with a fault: the last qualifying standard row is taken
FirstStd_Last(l) == l[Len(l)]

\* ARMS lines 69-76 and 288-290: std_idx[0], the first qualifying standard row
FirstStd(l) == l[1]

RECURSIVE BuildStdKeys(_, _)
BuildStdKeys(e, acc) ==
  IF e > NSci THEN acc
  ELSE LET l == stdList[e] IN
       IF Len(l) > 0 /\ FirstStd(l) \notin Range(acc)
         THEN BuildStdKeys(e + 1, Append(acc, FirstStd(l)))
         ELSE BuildStdKeys(e + 1, acc)

\* list(std_dict.keys()): the keys in the order the dict yields them, which
\* is first observed when the loop of line 331 iterates over them
KeyOrders(K) ==
  {q \in UNION {[1..n -> K] : n \in {Cardinality(K)}} : Range(q) = K}

BuildSciexp ==
  /\ pc = "init"
  /\ IF supplied
       THEN /\ std_keys' = << >>
            /\ stdslf' = EmptyFn
            /\ basenames' = << >>
            /\ std_idx' = std_idx
       ELSE /\ std_keys' = << >>
            /\ stdslf' = [x \in Range(BuildStdKeys(1, << >>)) |-> NewStandard]
            /\ basenames' = [e \in Sci |-> Basename(e)]
            /\ std_idx' = [bound |-> TRUE, list |-> TRUE, v |-> stdList[NSci]]
  /\ numsci' = NSci
  /\ sc' = 0
  /\ pc' = "loop_sci"
  /\ UNCHANGED <<inputs, waveio, cfg, flux, det, kk, setup, sciexp, slf, calib_dict,
                 store, handed, files, stdfiles, sensfunc, status, ret, hist>>

\* LoopDone with a fault: the exposure loop stops one exposure early
LoopDone_Early(i) == i >= numsci

\* ARMS line 83: for sc in range(numsci)
LoopDone(i) == i > numsci

\* the wave images UpdateMasters handed on to exposure e of configuration c
Handed(e, c) ==
  [slf[e] EXCEPT !.mswave =
     [d \in Dets |-> IF <<c, d>> \in DOMAIN handed THEN handed[<<c, d>>] ELSE @[d]]]

LoopSci ==
  /\ pc = "loop_sci"
  /\ sc' = sc + 1
  /\ IF LoopDone(sc + 1)
       THEN /\ pc' = "write_std" /\ kk' = 1 /\ det' = det
            /\ std_keys' \in KeyOrders(DOMAIN stdslf)
            /\ UNCHANGED <<cfg, slf>>
       ELSE /\ pc' = "loop_det" /\ det' = 0 /\ kk' = kk
            /\ std_keys' = std_keys
            /\ \E c \in CfgChoices(sc + 1) :
                 /\ cfg' = [cfg EXCEPT ![sc + 1] = c]
                 /\ slf' = [slf EXCEPT ![sc + 1] = Handed(sc + 1, c)]
  /\ UNCHANGED <<inputs, waveio, flux, setup, std_idx, numsci, sciexp,
                 stdslf, basenames, calib_dict, store, handed, files, stdfiles,
                 sensfunc, status, ret, hist>>

\* Skipped with a fault: the detnum list is not consulted
Skipped_Never(d) == FALSE

\* ARMS lines 97-100: the detector is not in the configured detnum list
Skipped(d) == detnum # NoDetnum /\ d \notin detnum

\* DetLoopDone with a fault: the detector loop stops one detector early
DetLoopDone_Early(d) == d >= NDet

\* ARMS line 95: for kk in range(ndet)
DetLoopDone(d) == d > NDet

\* NeedsRecord with a fault: the per-setup record is created anew each time
NeedsRecord_Always(S) == TRUE

\* ARMS line 120: setup not in calib_dict.keys()
NeedsRecord(S) == S \notin DOMAIN calib_dict

\* ARMS lines 95-121: next detector, skip test, setup, calib_dict[setup] = {}
LoopDet ==
  /\ pc = "loop_det"
  /\ LET d == det + 1 IN
     IF DetLoopDone(d)
       THEN /\ pc' = "write"
            /\ UNCHANGED <<det, setup, calib_dict>>
       ELSE /\ det' = d
            /\ IF Skipped(d)
                 THEN /\ pc' = "loop_det"
                      /\ UNCHANGED <<setup, calib_dict>>
                 ELSE /\ pc' = "bias"
                      /\ setup' = instr_setup(sc, d)
                      /\ calib_dict' =
                           IF NeedsRecord(instr_setup(sc, d))
                             THEN Put(calib_dict, instr_setup(sc, d), EmptyFn)
                             ELSE calib_dict
  /\ UNCHANGED <<inputs, waveio, cfg, flux, sc, kk, std_idx, numsci, sciexp, slf,
                 std_keys, stdslf, basenames, store, handed, files, stdfiles,
                 sensfunc, status, ret, hist>>

\* an exception raised inside ARMS: the function body holds no try/except
Raise == "aborted"

\* ------------------------------------------- calibration cache and store
\* settings.argflag['reduce']['masters']: reuse or force (ARMS line 185)
ReuseFromDisk == masters.reuse \/ masters.force

\* Master-Product Store: load(kind, setup) -> product | absent.  `store`
\* holds the masters saved in this run; masters.disk says that a previous run
\* left a master of every kind and setup on disk.
StoreHas(K, S) == masters.disk \/ <<K, S>> \in DOMAIN store

StoreLoad(K, S) ==
  IF <<K, S>> \in DOMAIN store THEN store[<<K, S>>] ELSE Val(S, "disk")

\* InCalib with a fault: the in-memory record is never consulted
InCalib_Never(K) == FALSE

\* 'kind' in calib_dict[setup].keys()  (ARMS lines 135, 148, 160, 181)
InCalib(K) == K \in DOMAIN calib_dict[setup]

CalibVal(K) == IF InCalib(K) THEN calib_dict[setup][K] ELSE None

\* Resolve with a fault: the master on disk is consulted before the
\* in-memory record
Resolve_DiskFirst(inMemory, memVal, useDisk, K, S) ==
  IF useDisk /\ StoreHas(K, S)
    THEN [v |-> StoreLoad(K, S), how |-> "disk", queried |-> TRUE]
    ELSE IF inMemory
           THEN [v |-> memVal, how |-> "memory", queried |-> useDisk]
           ELSE [v |-> Val(S, "built"), how |-> "built", queried |-> useDisk]

\* The lookup of ARMS lines 181-213: the in-memory record first, then (when
\* reuse-from-disk is on) the master on disk, else build.
Resolve(inMemory, memVal, useDisk, K, S) ==
  IF inMemory
    THEN [v |-> memVal, how |-> "memory", queried |-> FALSE]
    ELSE IF useDisk /\ StoreHas(K, S)
           THEN [v |-> StoreLoad(K, S), how |-> "disk", queried |-> TRUE]
           ELSE [v |-> Val(S, "built"), how |-> "built", queried |-> useDisk]

\* BiasFrame.master() / ArcImage.master(): grab the master or build and save it
FrameMaster(K) == Resolve(InCalib(K), CalibVal(K), ReuseFromDisk, K, setup)

\* BPMImage.build(): always built, never read from disk (ARMS lines 160-171)
BpmBuild == Resolve(InCalib("bpm"), CalibVal("bpm"), FALSE, "bpm", setup)

\* ARMS lines 181-213
TraceResolution ==
  Resolve(InCalib("trace"), CalibVal("trace"), ReuseFromDisk, "trace", setup)

\* slf._X[det-1] is None, then armasters.load_master_frame, then compute
ExpResolution(K, f) ==
  Resolve(slf[sc][f][det] # None, slf[sc][f][det], ReuseFromDisk, K, setup)

\* StepAfter with a fault: the tilts block placed before the slit tracing
StepAfter_TiltsBeforeTrace(p) ==
  CASE p = "bias"    -> "arc"
    [] p = "arc"     -> "bpm"
    [] p = "bpm"     -> "tilts"
    [] p = "tilts"   -> "trace"
    [] p = "trace"   -> "wvcalib"
    [] p = "wvcalib" -> "flat"
    [] p = "flat"    -> "wave"
    [] p = "wave"    -> "sci"
    [] p = "sci"     -> "std"
    [] OTHER         -> "loop_det"

\* StepAfter with a fault: the standard reduced before the science frame
StepAfter_StdBeforeSci(p) ==
  CASE p = "bias"    -> "arc"
    [] p = "arc"     -> "bpm"
    [] p = "bpm"     -> "trace"
    [] p = "trace"   -> "wvcalib"
    [] p = "wvcalib" -> "tilts"
    [] p = "tilts"   -> "flat"
    [] p = "flat"    -> "wave"
    [] p = "wave"    -> "std"
    [] p = "std"     -> "sci"
    [] OTHER         -> "loop_det"

\* the order of the blocks of the detector loop body (ARMS lines 132-307)
StepAfter(p) ==
  CASE p = "bias"    -> "arc"
    [] p = "arc"     -> "bpm"
    [] p = "bpm"     -> "trace"
    [] p = "trace"   -> "wvcalib"
    [] p = "wvcalib" -> "tilts"
    [] p = "tilts"   -> "flat"
    [] p = "flat"    -> "wave"
    [] p = "wave"    -> "sci"
    [] p = "sci"     -> "std"
    [] OTHER         -> "loop_det"

\* bookkeeping common to every resolution: counters and observed values
Account(K, r) ==
  /\ ncomp' = IF r.how = "built" THEN Bump(ncomp, <<K, setup>>) ELSE ncomp
  /\ nquery' = IF r.queried THEN Bump(nquery, <<K, setup>>) ELSE nquery
  /\ seen' = Put(seen, <<K, setup>>, Seen(<<K, setup>>) \cup {r.v})
  /\ UNCHANGED <<nstdred, coDone, failed, corrupt>>

\* SaveInCalib with a fault: the product is used but not kept in the record
SaveInCalib_Forget(rec, K, v) == rec

\* ARMS lines 144, 156, 171, 213: calib_dict[setup][K] = product
SaveInCalib(rec, K, v) == Put(rec, K, v)

\* one block of the calib_dict kinds; a built master is saved when `saves`
CalibStep(K, r, saves) ==
  /\ pc = K
  /\ calib_dict' = IF r.how = "memory" THEN calib_dict
                   ELSE [calib_dict EXCEPT ![setup] = SaveInCalib(@, K, r.v)]
  /\ store' = IF r.how = "built" /\ saves
                THEN Put(store, <<K, setup>>, r.v) ELSE store
  /\ Account(K, r)
  /\ pc' = StepAfter(K)

\* `update and reuseMaster` (ARMS lines 231, 252, 257), then
\* armbase.UpdateMasters(sciexp, sc, det, ...): the master frame is handed on
\* to the later science exposures that use identical calibration frames,
\* which receive it when their configuration is read (LoopSci)
UpdateMasters(r, push) == push /\ reuseMaster /\ r.how # "memory"

\* a product kept on the exposure: slf.SetFrame(slf._f, product, det)
ExpStep(p, K, f, r, push) ==
  /\ slf' = [slf EXCEPT ![sc][f][det] = r.v]
  /\ handed' = IF UpdateMasters(r, push) THEN Put(handed, setup, r.v) ELSE handed
  /\ store' = IF r.how = "built" THEN Put(store, <<K, setup>>, r.v) ELSE store
  /\ Account(K, r)
  /\ pc' = StepAfter(p)
  /\ UNCHANGED <<inputs, waveio, cfg, flux, sc, det, kk, setup, std_idx, numsci, sciexp,
                 std_keys, stdslf, basenames, calib_dict, files, stdfiles,
                 sensfunc, status, ret>>

\* ARMS lines 132-144
Bias ==
  /\ CalibStep("bias", FrameMaster("bias"), TRUE)
  /\ UNCHANGED <<inputs, waveio, cfg, flux, sc, det, kk, setup, std_idx, numsci, sciexp,
                 slf, std_keys, stdslf, basenames, handed, files, stdfiles,
                 sensfunc, status, ret>>

\* ARMS lines 146-156
Arc ==
  /\ CalibStep("arc", FrameMaster("arc"), TRUE)
  /\ UNCHANGED <<inputs, waveio, cfg, flux, sc, det, kk, setup, std_idx, numsci, sciexp,
                 slf, std_keys, stdslf, basenames, handed, files, stdfiles,
                 sensfunc, status, ret>>

\* ARMS lines 158-171
Bpm ==
  /\ CalibStep("bpm", BpmBuild, FALSE)
  /\ UNCHANGED <<inputs, waveio, cfg, flux, sc, det, kk, setup, std_idx, numsci, sciexp,
                 slf, std_keys, stdslf, basenames, handed, files, stdfiles,
                 sensfunc, status, ret>>

\* TraceSlits.from_master_files on a master file: one left by an earlier run
\* may be malformed, and reading it then raises (CorruptMasterError); one
\* saved in this run is well formed
MasterReadable(r) ==
  IF r.how = "disk" /\ r.v.o = "disk" THEN BOOLEAN ELSE {TRUE}

\* the configurations of the table rows the exposure loop has not reached
RowsBeyond(e) ==
  {c \in [Sci -> Cfgs \cup {"-"}] :
     \A i \in Sci : IF i <= e THEN c[i] = cfg[i] ELSE c[i] \in Cfgs}

\* ARMS lines 179-226: the slit trace, then its frames set on slf
Trace ==
  /\ pc = "trace"
  /\ \E readable \in MasterReadable(TraceResolution) :
       IF readable
         THEN /\ CalibStep("trace", TraceResolution, TRUE)
              /\ slf' = [slf EXCEPT ![sc].lordloc[det] = TraceResolution.v,
                                    ![sc].maskslits[det] =
                                        [s |-> TraceResolution.v.s, o |-> "clear"]]
              /\ cfg' = cfg
         ELSE /\ pc' = Raise
              /\ corrupt' = corrupt \cup {setup}
              /\ failed' = failed \cup {sc}
              /\ nquery' = Bump(nquery, <<"trace", setup>>)
              /\ cfg' \in RowsBeyond(sc)
              /\ UNCHANGED <<slf, calib_dict, store, ncomp, nstdred, seen, coDone>>
  /\ UNCHANGED <<inputs, waveio, flux, sc, det, kk, setup, std_idx, numsci, sciexp,
                 std_keys, stdslf, basenames, handed, files, stdfiles, sensfunc,
                 status, ret>>

\* ARMS lines 228-232: slf.MasterWaveCalib
WvCalib ==
  /\ pc = "wvcalib"
  /\ ExpStep("wvcalib", "wvcalib", "wvcalib", ExpResolution("wvcalib", "wvcalib"), FALSE)

\* ARMS lines 234-247
Tilts ==
  /\ pc = "tilts"
  /\ ExpStep("tilts", "tilts", "tilts", ExpResolution("tilts", "tilts"), FALSE)

\* ARMS lines 249-252: slf.MasterFlatField
Flat ==
  /\ pc = "flat"
  /\ ExpStep("flat", "flat", "mspixelflatnrm", ExpResolution("flat", "mspixelflatnrm"), FALSE)

\* ARMS lines 254-258: slf.MasterWave
Wave ==
  /\ pc = "wave"
  /\ ExpStep("wave", "wave", "mswave", ExpResolution("wave", "mswave"), TRUE)

\* ARMS lines 274-283: load the science frame, reduce it
SciReduce ==
  /\ pc = "sci"
  /\ \E ok \in BOOLEAN :
       IF ok
         THEN /\ slf' = [slf EXCEPT ![sc].specobjs = @ \cup {det}]
              /\ pc' = StepAfter("sci")
              /\ failed' = failed
         ELSE /\ failed' = failed \cup {sc}
              /\ pc' = Raise
              /\ slf' = slf
  /\ UNCHANGED <<inputs, waveio, cfg, flux, sc, det, kk, setup, std_idx, numsci, sciexp,
                 std_keys, stdslf, basenames, calib_dict, store, handed, files,
                 stdfiles, sensfunc, status, ret, ncomp, nquery, nstdred,
                 seen, coDone, corrupt>>

\* NotExtracted with a fault: the extracted flag is not consulted
NotExtracted_Always(X, d) == TRUE

\* NotExtracted with a fault: the flag of the neighbouring detector is read
NotExtracted_OtherDet(X, d) == ~stdslf[X].extracted[(d % NDet) + 1]

\* ARMS line 294: stdslf.extracted[det-1] is False
NotExtracted(X, d) == ~stdslf[X].extracted[d]

\* ARMS lines 286-307: reduce the standard of this science exposure
CoReduce ==
  /\ pc = "std"
  /\ IF Len(stdList[sc]) = 0
       THEN /\ std_idx' = [bound |-> TRUE, list |-> TRUE, v |-> stdList[sc]]
            /\ pc' = "loop_det"
            /\ UNCHANGED <<stdslf, nstdred, coDone, failed>>
       ELSE LET X == FirstStd(stdList[sc]) IN
            /\ std_idx' = [bound |-> TRUE, list |-> FALSE, v |-> <<X>>]
            /\ IF X \notin DOMAIN stdslf
                 THEN /\ pc' = Raise
                      /\ failed' = failed \cup {sc}
                      /\ UNCHANGED <<stdslf, nstdred, coDone>>
                 ELSE /\ pc' = "loop_det"
                      /\ coDone' = coDone \cup {<<sc, det>>}
                      /\ failed' = failed
                      /\ IF NotExtracted(X, det)
                           THEN /\ stdslf' = [stdslf EXCEPT
                                      ![X].ref = sc,
                                      ![X].specobjs = @ \cup {det},
                                      ![X].by[det] = sc,
                                      ![X].extracted[det] = TRUE]
                                /\ nstdred' = Bump(nstdred, <<X, det>>)
                           ELSE UNCHANGED <<stdslf, nstdred>>
  /\ UNCHANGED <<inputs, waveio, cfg, flux, sc, det, kk, setup, numsci, sciexp, slf,
                 std_keys, basenames, calib_dict, store, handed, files, stdfiles,
                 sensfunc, status, ret, ncomp, nquery, seen, corrupt>>

\* ARMS lines 309-326: write the science exposure's spectra and images
Write ==
  /\ pc = "write"
  /\ files' = Put(files, Basename(sc),
                  [stage |-> "raw", specobjs |-> slf[sc].specobjs, sens |-> -1,
                   nwrite |-> IF Basename(sc) \in DOMAIN files
                                THEN files[Basename(sc)].nwrite + 1 ELSE 1,
                   nread |-> 0])
  /\ pc' = "release"
  /\ UNCHANGED <<inputs, waveio, cfg, handed, flux, sc, det, kk, setup, std_idx, numsci, sciexp, slf,
                 std_keys, stdslf, basenames, calib_dict, store, stdfiles,
                 sensfunc, status, ret, hist>>

\* ARMS line 328: sciexp[sc] = None
Release ==
  /\ pc = "release"
  /\ sciexp' = [sciexp EXCEPT ![sc] = FALSE]
  /\ pc' = "loop_sci"
  /\ UNCHANGED <<inputs, waveio, cfg, handed, flux, sc, det, kk, setup, std_idx, numsci, slf,
                 std_keys, stdslf, basenames, calib_dict, store, files,
                 stdfiles, sensfunc, status, ret, hist>>

\* ARMS lines 330-334: write every standard of std_dict
WriteStd ==
  /\ pc = "write_std"
  /\ IF kk > Len(std_keys)
       THEN /\ pc' = "flux_check"
            /\ UNCHANGED <<kk, stdfiles>>
       ELSE /\ stdfiles' = Put(stdfiles, std_keys[kk],
                  [row |-> std_idx, specobjs |-> stdslf[std_keys[kk]].specobjs,
                   nwrite |-> IF std_keys[kk] \in DOMAIN stdfiles
                                THEN stdfiles[std_keys[kk]].nwrite + 1 ELSE 1])
            /\ kk' = kk + 1
            /\ pc' = "write_std"
  /\ UNCHANGED <<inputs, waveio, cfg, handed, flux, sc, det, setup, std_idx, numsci, sciexp, slf,
                 std_keys, stdslf, basenames, calib_dict, store, files,
                 sensfunc, status, ret, hist>>

\* ARMS line 339
FluxWanted(f) == f # "off" /\ Cardinality(DOMAIN stdslf) > 0

FluxCheck ==
  /\ pc = "flux_check"
  /\ \E f \in {"off", "build", "archival"} :
       /\ flux' = f
       /\ pc' = IF FluxWanted(f) THEN "flux_sens" ELSE "return"
  /\ UNCHANGED <<inputs, waveio, cfg, handed, sc, det, kk, setup, std_idx, numsci, sciexp, slf,
                 std_keys, stdslf, basenames, calib_dict, store, files,
                 stdfiles, sensfunc, status, ret, hist>>

\* SensKey with a fault: the last key instead of the first
SensKey_Last == std_keys[Len(std_keys)]

\* ARMS lines 352-353: std_keys[0]
SensKey == std_keys[1]

\* SensSetup with a fault: the configuration under which the chosen standard
\* was reduced is passed on
SensSetup_OfStandard == <<cfg[stdslf[SensKey].ref], setup[2]>>

\* ARMS line 355: setup=setup, the local of the detector loop (line 110)
SensSetup == setup

\* ARMS lines 346-362: build the sensitivity function, or take the archival one
FluxSens ==
  /\ pc = "flux_sens"
  /\ IF flux = "build"
       THEN IF setup = NoSetup
              THEN pc' = Raise /\ UNCHANGED <<sensfunc, kk>>
              ELSE /\ sensfunc' = [built |-> TRUE, std |-> SensKey, setup |-> SensSetup]
                   /\ pc' = "flux_sci" /\ kk' = 1
       ELSE /\ sensfunc' = [built |-> TRUE, std |-> 0, setup |-> NoSetup]
            /\ pc' = "flux_sci" /\ kk' = 1
  /\ UNCHANGED <<inputs, waveio, cfg, handed, flux, sc, det, setup, std_idx, numsci, sciexp, slf,
                 std_keys, stdslf, basenames, calib_dict, store, files,
                 stdfiles, status, ret, hist>>

\* FluxFile with a fault: the basenames are taken in reverse order
FluxFile_Reversed(k) == basenames[NSci + 1 - k]

\* ARMS lines 366-367: spec1d_{basenames[kk]}.fits
FluxFile(k) == basenames[k]

\* ARMS lines 363-375: re-read, flux and overwrite every science file
FluxSci ==
  /\ pc = "flux_sci"
  /\ IF supplied \/ (kk <= NSci /\ (kk > Len(basenames) \/ FluxFile(kk) \notin DOMAIN files))
       THEN pc' = Raise /\ UNCHANGED <<kk, files>>
       ELSE IF kk > NSci
              THEN pc' = "return" /\ UNCHANGED <<kk, files>>
              ELSE /\ files' = [files EXCEPT ![FluxFile(kk)] =
                         [@ EXCEPT !.stage = "fluxed", !.sens = sensfunc.std,
                                   !.nread = @ + 1, !.nwrite = @ + 1]]
                   /\ kk' = kk + 1
                   /\ pc' = "flux_sci"
  /\ UNCHANGED <<inputs, waveio, cfg, handed, flux, sc, det, setup, std_idx, numsci, sciexp, slf,
                 std_keys, stdslf, basenames, calib_dict, store, stdfiles,
                 sensfunc, status, ret, hist>>

\* ARMS line 377
Return ==
  /\ pc = "return"
  /\ ret' = status
  /\ pc' = "done"
  /\ UNCHANGED <<inputs, waveio, cfg, handed, flux, sc, det, kk, setup, std_idx, numsci, sciexp, slf,
                 std_keys, stdslf, basenames, calib_dict, store, files,
                 stdfiles, sensfunc, status, hist>>

Next ==
  \/ BuildSciexp \/ LoopSci \/ LoopDet
  \/ Bias \/ Arc \/ Bpm \/ Trace \/ WvCalib \/ Tilts \/ Flat \/ Wave
  \/ SciReduce \/ CoReduce \/ Write \/ Release
  \/ WriteStd \/ FluxCheck \/ FluxSens \/ FluxSci \/ Return

Spec == Init /\ [][Next]_vars

\* ------------------------------------------------------------------------
\* pypeit.core.wavecal.waveio: load_line_lists and load_unknown_list
\* ------------------------------------------------------------------------
NLamps   == 3
MaxLines == 2

\* the lamp names; a list of lamp names as a caller passes it
Lamps     == 1..NLamps
LampLists == UNION {[1..n -> Lamps] : n \in 0..MaxLines}

\* the two directories of line lists and the files they may hold, one per lamp
\* ({lamp}_lines.dat under line_path, {lamp}_vacuum.ascii under nist_path)
line_path == "lists"
nist_path == "NIST"
LineFiles == {line_path, nist_path} \X Lamps

\* defs.lines(): every lamp has its own power of two as flag
line_dict(k) == 2 ^ (k - 1)

\* a table row: the lamp the line belongs to (0: unknown), the directory it
\* was read from and the line_flag column (NoFlag: the table has no such
\* column)
NoFlag == -1
Row(k, dir, f) == [ion |-> k, dir |-> dir, line_flag |-> f]

\* load_line_list(line_file, NIST): the table read from one line-list file
load_line_list(f) == << Row(f[2], f[1], NoFlag) >>

\* load_line_list(UNKNWNs.dat): the unknown lines, one row for every
\* combination of lamps a line has been seen in
UNKNWNs == [i \in 1..(2 ^ NLamps) |-> Row(0, line_path, i - 1)]

\* vstack of a list of tables
RECURSIVE vstack(_)
vstack(ts) == IF ts = << >> THEN << >> ELSE Head(ts) \o vstack(Tail(ts))

\* table.remove_column('line_flag')
remove_column(t) == [i \in DOMAIN t |-> [t[i] EXCEPT !.line_flag = NoFlag]]

\* line_list['line_flag'] % (2*line_flag) >= line_flag, for one row
Match_Threshold(v, lf) == v >= lf
Match(v, lf) == (v % (2 * lf)) >= lf

\* the loop over `lines` of load_unknown_list: msk[match] = True
RECURSIVE Mask(_, _, _)
Mask(t, ls, msk) ==
  IF ls = << >> THEN msk
  ELSE Mask(t, Tail(ls),
            msk \cup {i \in DOMAIN t : Match(t[i].line_flag, line_dict(Head(ls)))})

\* line_list[msk]: the rows of the mask, in the order of the table
RECURSIVE Masked(_, _, _)
Masked(t, i, msk) ==
  IF i > Len(t) THEN << >>
  ELSE (IF i \in msk THEN <<t[i]>> ELSE << >>) \o Masked(t, i + 1, msk)

load_unknown_list(ls, a) ==
  IF a THEN UNKNWNs ELSE Masked(UNKNWNs, 1, Mask(UNKNWNs, ls, {}))

\* the file load_line_lists looks for, for lamp k
LineFile(k) == IF NIST THEN <<nist_path, k>> ELSE <<line_path, k>>

\* glob.glob(line_path+'*_lines.dat'): the lamps that have a file there
Glob == {k \in Lamps : <<line_path, k>> \in isfile}

\* pdb.set_trace() before the raise: the session goes on ("continue") and the
\* IOError is raised, or it is quit, or its input is at end of file, and
\* BdbQuit is raised instead
Debugger == {"continue", "quit"}

\* ARMS is not running
ArmsIdle ==
  /\ cfg = [e \in Sci |-> "-"]
  /\ stdList = [e \in Sci |-> << >>]
  /\ detnum = NoDetnum
  /\ masters = [reuse |-> FALSE, force |-> FALSE, disk |-> FALSE]
  /\ supplied = FALSE
  /\ reuseMaster = FALSE
  /\ flux = "unread"
  /\ pc = "init" /\ sc = 0 /\ det = 0 /\ kk = 0
  /\ setup = NoSetup
  /\ std_idx = [bound |-> FALSE, list |-> TRUE, v |-> << >>]
  /\ numsci = 0
  /\ sciexp = [e \in Sci |-> TRUE]
  /\ slf = [e \in Sci |-> NewExposure]
  /\ std_keys = << >>
  /\ stdslf = EmptyFn
  /\ basenames = << >>
  /\ calib_dict = EmptyFn
  /\ store = EmptyFn
  /\ handed = EmptyFn
  /\ files = EmptyFn
  /\ stdfiles = EmptyFn
  /\ sensfunc = [built |-> FALSE, std |-> 0, setup |-> NoSetup]
  /\ status = 0
  /\ ret = -1
  /\ ncomp = EmptyFn
  /\ nquery = EmptyFn
  /\ nstdred = EmptyFn
  /\ seen = EmptyFn
  /\ coDone = {}
  /\ failed = {}
  /\ corrupt = {}

\* one call of a waveio function: its arguments and the files on disk.  What
\* no call reads is left at one value: `lines` when all is set (both
\* functions ignore it), the directory load_line_lists does not look into.
InitWaveio ==
  /\ ArmsIdle
  /\ lines \in LampLists
  /\ skip \in BOOLEAN /\ all \in BOOLEAN /\ unknown \in BOOLEAN
  /\ NIST \in BOOLEAN
  /\ isfile \in SUBSET LineFiles
  /\ all => lines = << >>
  /\ ~NIST => \A f \in isfile : f[1] = line_path
  /\ (NIST /\ ~all) => \A f \in isfile : f[1] = nist_path
  /\ wpc = "none" /\ line = 0 /\ lists = << >>
  /\ out = [how |-> "none", rows |-> << >>]

\* load_line_lists, lines 140-151: with all, `lines` becomes the lamps that
\* glob finds, in the order glob gives them
LoadLineLists_Call ==
  /\ wpc = "none"
  /\ IF all THEN lines' \in KeyOrders(Glob) ELSE lines' = lines
  /\ lists' = << >>
  /\ line' = 0
  /\ wpc' = "loop"
  /\ UNCHANGED <<inputs, arms, hist, skip, all, unknown, NIST, isfile, out>>

\* lines 152-162: one pass of `for line in lines`
LoadLineLists_Loop ==
  /\ wpc = "loop"
  /\ IF line = Len(lines)
       THEN /\ wpc' = "stack"
            /\ UNCHANGED <<line, lists, out>>
       ELSE LET line_file == LineFile(lines[line + 1]) IN
            IF line_file \notin isfile
              THEN IF ~skip
                     THEN \E dbg \in Debugger :
                            /\ wpc' = "done"
                            /\ out' = [how  |-> IF dbg = "continue"
                                                 THEN "IOError" ELSE "BdbQuit",
                                       rows |-> << >>]
                            /\ UNCHANGED <<line, lists>>
                     ELSE /\ line' = line + 1
                          /\ UNCHANGED <<wpc, lists, out>>
              ELSE /\ lists' = Append(lists, load_line_list(line_file))
                   /\ line' = line + 1
                   /\ UNCHANGED <<wpc, out>>
  /\ UNCHANGED <<inputs, arms, hist, lines, skip, all, unknown, NIST, isfile>>

\* lines 163-176: None when nothing was loaded, else the stacked tables, with
\* the unknown lines of the lamps appended when asked for
LoadLineLists_Return ==
  /\ wpc = "stack"
  /\ out' = IF Len(lists) = 0
              THEN [how |-> "None", rows |-> << >>]
              ELSE [how  |-> "table",
                    rows |-> IF unknown
                               THEN vstack(<<vstack(lists),
                                      remove_column(load_unknown_list(lines, FALSE))>>)
                               ELSE vstack(lists)]
  /\ wpc' = "done"
  /\ UNCHANGED <<inputs, arms, hist, lines, skip, all, unknown, NIST, isfile,
                 line, lists>>

\* load_unknown_list(lines, all=all), called on its own
LoadUnknownList ==
  /\ wpc = "none"
  /\ out' = [how |-> "table", rows |-> load_unknown_list(lines, all)]
  /\ wpc' = "done_unknown"
  /\ UNCHANGED <<inputs, arms, hist, lines, skip, all, unknown, NIST, isfile,
                 line, lists>>

NextWaveio ==
  \/ LoadLineLists_Call \/ LoadLineLists_Loop \/ LoadLineLists_Return
  \/ LoadUnknownList

SpecWaveio == InitWaveio /\ [][NextWaveio]_vars

\* ------------------------------------------------------------------------
\* Properties
\* ------------------------------------------------------------------------
Terminated == pc \in {"done", Raise}

\* ARMS lines 296-298: the attributes bound to the standard (of the modelled
\* fields: trace geometry, tilts, slit mask, flat normalisation, wave image)
Copied == {"lordloc", "tilts", "maskslits", "mspixelflatnrm", "mswave"}

\* the frames a standard's attributes are bound to, on detector d: setattr
\* binds the standard's attribute to the science exposure's per-detector list
StdField(X, f, d) ==
  IF stdslf[X].ref = 0 \/ f \notin Copied THEN None ELSE slf[stdslf[X].ref][f][d]

\* science exposures up to the current one that share the configuration of S
SharingSoFar(S) == {e \in Sci : e <= sc /\ cfg[e] = S[1]}

C2_StandardReducedOnce ==
  \A X \in DOMAIN stdslf : \A d \in Dets :
    /\ Count(nstdred, <<X, d>>) <= 1
    /\ stdslf[X].extracted[d] <=> Count(nstdred, <<X, d>>) = 1

\* C2 witness: two science exposures with the same standard have both passed
\* the co-reduction step on detector 1 and the standard was reduced once.
C2_Witness ==
  /\ <<1, 1>> \in coDone /\ <<2, 1>> \in coDone
  /\ FirstStd(stdList[1]) = FirstStd(stdList[2])
  /\ Count(nstdred, <<FirstStd(stdList[1]), 1>>) = 1

\* C3 (as stated): once the co-reduction step of (E, d) has completed, the
\* calibration fields of E's standard on d are identical to E's on d.
C3_StandardSharesScienceCalib ==
  \A p \in coDone :
    \A f \in Copied :
      StdField(FirstStd(stdList[p[1]]), f, p[2]) = slf[p[1]][f][p[2]]

\* the six per-exposure products of detector d are all resolved
Resolved(e, d) == \A f \in Fields : slf[e][f][d] # None

\* C4: in the detector loop no step starts before the products it depends on
\* are present: bias, then arc and bpm, then trace, then tilts, then flat,
\* then wave; the science frame is reduced after all of them.
C4_DependencyOrder ==
  /\ pc \in {"arc", "bpm", "trace", "wvcalib", "tilts", "flat", "wave", "sci", "std"}
       => InCalib("bias")
  /\ pc \in {"trace", "wvcalib", "tilts", "flat", "wave", "sci", "std"}
       => InCalib("arc") /\ InCalib("bpm")
  /\ pc \in {"wvcalib", "tilts", "flat", "wave", "sci", "std"}
       => InCalib("trace") /\ slf[sc].lordloc[det] # None
  /\ pc \in {"flat", "wave", "sci", "std"} => slf[sc].tilts[det] # None
  /\ pc \in {"wave", "sci", "std"}
       => slf[sc].mspixelflatnrm[det] # None /\ slf[sc].wvcalib[det] # None
  /\ pc \in {"sci", "std"} => slf[sc].mswave[det] # None
  /\ \A e \in Sci : \A d \in slf[e].specobjs :
       /\ Resolved(e, d)
       /\ CKinds \subseteq DOMAIN calib_dict[instr_setup(e, d)]

\* C4 witness: the second exposure's science frame has been reduced on the
\* last detector after its wave image was resolved.
C4_Witness ==
  sc = 2 /\ pc = "std" /\ det = NDet /\ det \in slf[sc].specobjs

\* C5: the flux stage (sensitivity function, re-read and rewrite of science
\* files) starts only when every science exposure is written and released.
C5_FluxBarrier ==
  (\/ pc \in {"flux_sens", "flux_sci"}
   \/ sensfunc.built
   \/ \E n \in DOMAIN files : files[n].stage = "fluxed" \/ files[n].nread > 0)
  => \A e \in Sci : e \in DOMAIN files /\ ~sciexp[e]

\* C5 witness: the flux stage is rewriting files, all exposures written.
C5_Witness ==
  /\ pc = "flux_sci" /\ kk = 2
  /\ files[1].stage = "fluxed" /\ files[2].stage = "raw"

\* C6: with no archival sensitivity file the sensitivity function is built
\* from the first key of std_dict only, and when the run returns every
\* science file has been fluxed with it.
C6_SingleStandardSensfunc ==
  (flux = "build" /\ sensfunc.built) =>
    /\ sensfunc.std = std_keys[1]
    /\ \A n \in DOMAIN files :
         files[n].stage = "fluxed" => files[n].sens = std_keys[1]
    /\ pc \in {"return", "done"} =>
         \A e \in Sci : e \in DOMAIN files /\ files[e].stage = "fluxed"

\* C6 witness: two standards; the first key is the standard reduced with the
\* second exposure, and the first exposure's file was fluxed with it.
C6_Witness ==
  /\ pc = "done" /\ flux = "build" /\ Len(std_keys) = 2
  /\ stdslf[std_keys[1]].by[1] = 2
  /\ files[1].stage = "fluxed" /\ files[1].sens = std_keys[1]

\* C7 (as stated): a failure on one science exposure does not abort the run:
\* the failed exposure has no output file and every later exposure is
\* written.
C7_FailureDoesNotAbort ==
  \A e \in failed :
    /\ pc # Raise
    /\ Terminated =>
         /\ e \notin DOMAIN files
         /\ \A e2 \in Sci : e2 > e /\ e2 \notin failed => e2 \in DOMAIN files

\* C8 (as stated): the returned status is 0 when every exposure succeeded and
\* 1 when one or more exposures failed.
C8_StatusDistinguishesOutcomes ==
  /\ pc = "done" /\ failed = {} => ret = 0
  /\ Terminated /\ failed # {} => ret = 1

\* C9 (as stated): the flux stage starts only if flux calibration is requested
\* and a standard has been reduced on at least one detector.
C9_FluxOnlyWithReducedStandard ==
  pc \in {"flux_sens", "flux_sci"} =>
    /\ flux # "off"
    /\ \E X \in DOMAIN stdslf : \E d \in Dets : stdslf[X].extracted[d]

\* C10: lookup precedence of the trace product: a calib_dict hit is used with
\* no store query and no build; else with reuse or force the master on disk
\* is queried and a hit (a master that can be read) is put in calib_dict
\* without a build; else the product is built and put in calib_dict.
C10_Precedence ==
  LET x == <<"trace", setup>>
      onDisk == masters.disk \/ x \in DOMAIN store
      master == IF x \in DOMAIN store THEN store[x] ELSE Val(setup, "disk")
  IN
  IF "trace" \in DOMAIN calib_dict[setup]
    THEN /\ Count(nquery', x) = Count(nquery, x)
         /\ Count(ncomp', x) = Count(ncomp, x)
         /\ calib_dict' = calib_dict /\ store' = store
         /\ slf'[sc].lordloc[det] = calib_dict[setup]["trace"]
    ELSE IF ReuseFromDisk /\ onDisk
           THEN /\ Count(nquery', x) = Count(nquery, x) + 1
                /\ Count(ncomp', x) = Count(ncomp, x)
                /\ \/ pc' = Raise /\ calib_dict' = calib_dict
                   \/ /\ pc' # Raise
                      /\ calib_dict'[setup]["trace"] = master
                      /\ slf'[sc].lordloc[det] = master
           ELSE /\ Count(ncomp', x) = Count(ncomp, x) + 1
                /\ Count(nquery', x) =
                     Count(nquery, x) + (IF ReuseFromDisk THEN 1 ELSE 0)
                /\ "trace" \in DOMAIN calib_dict'[setup]
                /\ calib_dict'[setup]["trace"].o = "built"
                /\ slf'[sc].lordloc[det] = calib_dict'[setup]["trace"]

ProductOf(K, S) ==
  IF K # "bpm" /\ ReuseFromDisk /\ masters.disk
    THEN Val(S, "disk") ELSE Val(S, "built")

\* the frame of field f an exposure holds for setup S once resolved
FrameOf(f, S) ==
  CASE f = "lordloc"        -> ProductOf("trace", S)
    [] f = "maskslits"      -> [s |-> S, o |-> "clear"]
    [] f = "wvcalib"        -> ProductOf("wvcalib", S)
    [] f = "tilts"          -> ProductOf("tilts", S)
    [] f = "mspixelflatnrm" -> ProductOf("flat", S)
    [] OTHER                -> ProductOf("wave", S)

\* the detectors the configured detnum list leaves out
LeftOut(d) == detnum # NoDetnum /\ d \notin detnum

\* the first science exposure in table order whose first standard is X
FirstRef(X) ==
  CHOOSE e \in Sci :
    /\ Len(stdList[e]) > 0 /\ stdList[e][1] = X
    /\ \A e2 \in Sci : (Len(stdList[e2]) > 0 /\ stdList[e2][1] = X) => e <= e2

\* a detector iteration has just ended, or the run has
BetweenDetectors == pc \in {"loop_det", "write", "done", Raise}

\* C11, the detectors left out: no calib_dict record, no build, disk query or
\* standard reduction, no frame and no reduction of any exposure or standard.
C11_NoEffect ==
  /\ \A S \in DOMAIN calib_dict : ~LeftOut(S[2])
  /\ \A x \in DOMAIN ncomp : ~LeftOut(x[2][2])
  /\ \A x \in DOMAIN nquery : ~LeftOut(x[2][2])
  /\ \A x \in DOMAIN nstdred : ~LeftOut(x[2])
  /\ \A d \in Dets :
       LeftOut(d) =>
         /\ \A e \in Sci :
              d \notin slf[e].specobjs /\ \A f \in Fields : slf[e][f][d] = None
         /\ \A X \in DOMAIN stdslf :
              ~stdslf[X].extracted[d] /\ d \notin stdslf[X].specobjs

\* C11, the detectors processed: at the end of every detector iteration each
\* calib_dict entry and each frame of a reduced (exposure, detector) is the
\* product of its setup, and every usable detector gone through is reduced.
C11_SameAsUnskipped ==
  BetweenDetectors =>
    /\ \A S \in DOMAIN calib_dict :
         \A K \in DOMAIN calib_dict[S] : calib_dict[S][K] = ProductOf(K, S)
    /\ \A e \in Sci :
         /\ \A d \in slf[e].specobjs :
              \A f \in Fields : slf[e][f][d] = FrameOf(f, instr_setup(e, d))
         /\ \A d \in Dets :
              (~LeftOut(d) /\ (e < sc \/ (e = sc /\ (d < det \/ pc = "write"))))
                 => d \in slf[e].specobjs

\* C11: a detector outside the detnum list has no effect, and what a
\* processed detector holds (its calib_dict entries, the frames of the
\* exposure and the reduction of its science frame) is a function of its
\* setup and the masters settings alone, hence the same whichever detectors
\* the detnum list leaves out.
C11_SkippedDetectorInert == C11_NoEffect /\ C11_SameAsUnskipped

\* C11 witness: detector 1 is skipped and detector 2 reduced, for the second
\* exposure and the standard it shares with the first.
C11_Witness ==
  /\ LeftOut(1) /\ ~LeftOut(2)
  /\ sc = 2 /\ pc = "write" /\ 2 \in slf[2].specobjs
  /\ Len(stdList[2]) > 0 /\ FirstStd(stdList[2]) \in DOMAIN stdslf
  /\ stdslf[FirstStd(stdList[2])].extracted[2]
  /\ "trace" \in DOMAIN calib_dict[instr_setup(2, 2)]

\* the positions at which ARMS works on sciexp[sc] through its local `slf`
InExposure ==
  pc \in {"loop_det", "bias", "arc", "bpm", "trace", "wvcalib", "tilts",
          "flat", "wave", "sci", "std", "write", "release"}

AfterExposureLoop ==
  pc \in {"write_std", "flux_check", "flux_sens", "flux_sci", "return", "done"}

\* C12, the state part: a written file holds the reduction of every usable
\* detector; a released slot has its file; the exposure ARMS is working on is
\* not released, and a standard bound to the frames of a released exposure has
\* nothing left to reduce; after the exposure loop every slot is released.
C12_Order ==
  /\ \A e \in DOMAIN files : files[e].specobjs = {d \in Dets : ~LeftOut(d)}
  /\ \A e \in Sci : ~sciexp[e] => e \in DOMAIN files
  /\ InExposure => sciexp[sc]
  /\ \A X \in DOMAIN stdslf :
       (stdslf[X].ref # 0 /\ ~sciexp[stdslf[X].ref]) =>
          \A d \in Dets : ~LeftOut(d) => stdslf[X].extracted[d]
  /\ AfterExposureLoop => \A e \in Sci : ~sciexp[e]

\* C12: outputs are written after all usable detectors, the slot is released
\* after the write, a released exposure stays released and its in-memory
\* state is not touched again, and after the loop every slot is released.
C12_WriteThenRelease ==
  [][/\ C12_Order'
     /\ \A e \in Sci :
          /\ (sciexp[e] /\ ~sciexp'[e]) => (e \in DOMAIN files /\ pc = "release")
          /\ ~sciexp[e] => (~sciexp'[e] /\ slf'[e] = slf[e])
          /\ (e \notin DOMAIN files /\ e \in DOMAIN files')
               => (pc = "write" /\ sc = e /\ det = NDet)]_vars

\* C12 witness: the first exposure was reduced on both detectors, written and
\* released; ARMS is working on the second.
C12_Witness ==
  /\ sc = 2 /\ pc = "trace" /\ ~sciexp[1] /\ sciexp[2]
  /\ files[1].specobjs = Dets

\* C13: the standard of (E, d) is reduced only when the four calib_dict
\* products of E's setup on d and the six frames of E on d are resolved and
\* E's own science frame has been reduced on d.
C13_StandardAfterScience ==
  /\ pc = "std" =>
       /\ CKinds \subseteq DOMAIN calib_dict[setup]
       /\ Resolved(sc, det)
       /\ det \in slf[sc].specobjs
  /\ \A X \in DOMAIN stdslf : \A d \in Dets :
       stdslf[X].extracted[d] =>
         LET e == stdslf[X].by[d] IN
         /\ e \in Sci
         /\ CKinds \subseteq DOMAIN calib_dict[instr_setup(e, d)]
         /\ Resolved(e, d)
         /\ d \in slf[e].specobjs

\* C13 witness: a standard that only the second exposure refers to has been
\* reduced on the last detector in that exposure's detector loop.
C13_Witness ==
  /\ sc = 2 /\ Len(stdList[2]) > 0
  /\ (Len(stdList[1]) = 0 \/ FirstStd(stdList[1]) # FirstStd(stdList[2]))
  /\ FirstStd(stdList[2]) \in DOMAIN stdslf
  /\ stdslf[FirstStd(stdList[2])].by[NDet] = 2
  /\ NDet \in slf[2].specobjs

\* C14 (as stated): the calibration fields are shared by value: in a step
\* that does not copy them again, a change of the science exposure's frames
\* leaves every copied field of the standard as it was.
C14_SharedByValue ==
  [][\A X \in DOMAIN stdslf :
       (stdslf[X].ref # 0 /\ stdslf'[X] = stdslf[X]) =>
          \A f \in Copied : \A d \in Dets :
            StdField(X, f, d)' = StdField(X, f, d)]_vars

\* C15: calib_dict grows monotonically: a per-setup record, once created, is
\* never removed, and an entry (setup, kind), once present, is never evicted
\* and never given another value.
C15_CalibDictMonotone ==
  [][\A S \in DOMAIN calib_dict :
       /\ S \in DOMAIN calib_dict'
       /\ \A K \in DOMAIN calib_dict[S] :
            /\ K \in DOMAIN calib_dict'[S]
            /\ calib_dict'[S][K] = calib_dict[S][K]]_vars

\* C15 witness: the second exposure comes back to the setup of the first,
\* whose record holds all four kinds, after records of both detectors exist.
C15_Witness ==
  /\ sc = 2 /\ det = 1 /\ pc = "bias" /\ cfg[2] = cfg[1]
  /\ Cardinality(DOMAIN calib_dict) = NDet
  /\ DOMAIN calib_dict[setup] = CKinds

\* the science exposures with one or more qualifying standard rows
WithStd == {e \in Sci : Len(stdList[e]) > 0}

\* C16, the map: when ARMS builds std_dict, its keys are exactly the first
\* standard rows of the science exposures, one entry per distinct row.
C16_Map ==
  (pc # "init" /\ ~supplied) => DOMAIN stdslf = {stdList[e][1] : e \in WithStd}

\* C16, the lookup in the detector loop: with no standard row the step
\* reduces nothing and changes no standard; otherwise only the first row is
\* looked up and no other standard changes.
C16_Lookup ==
  pc = "std" =>
    IF sc \notin WithStd
      THEN stdslf' = stdslf /\ nstdred' = nstdred /\ pc' = "loop_det"
      ELSE /\ std_idx'.v = <<stdList[sc][1]>>
           /\ \A X \in DOMAIN stdslf : X # stdList[sc][1] => stdslf'[X] = stdslf[X]
           /\ \A x \in DOMAIN nstdred' :
                x[1] # stdList[sc][1] => Count(nstdred', x) = Count(nstdred, x)

\* C16: only the first qualifying standard row of a science exposure is ever
\* used, std_dict (when built by ARMS) holds one entry per distinct first
\* row, and the co-reduction step of an exposure without standard is a no-op.
C16_FirstStandardOnly == [][C16_Map' /\ C16_Lookup]_vars

\* C16 witness: the first exposure has two qualifying rows and its standard
\* is the first of them; the second exposure has none and has passed the
\* co-reduction step of detector 1 with nothing reduced.
C16_Witness ==
  /\ ~supplied /\ stdList[1] = <<12, 11>> /\ stdList[2] = << >>
  /\ DOMAIN stdslf = {12} /\ stdslf[12].by[1] = 1
  /\ sc = 2 /\ det = 1 /\ pc = "loop_det" /\ 1 \in slf[2].specobjs
  /\ Count(nstdred, <<12, 1>>) = 1

\* the science exposures that would consume a product of setup S
Consumers(S) == {e \in Sci : \E d \in Dets : ~LeftOut(d) /\ instr_setup(e, d) = S}

\* C17 (as stated): a malformed master on disk for setup S is fatal for S
\* only: it is not put in calib_dict, and when the run has ended the exposures
\* that were still to consume S's product are abandoned while every exposure
\* of unrelated setups is reduced and written.
C17_CorruptMasterFatalForSetupOnly ==
  \A S \in corrupt :
    /\ S \in DOMAIN calib_dict => "trace" \notin DOMAIN calib_dict[S]
    /\ Terminated =>
         \A e \in Sci :
           IF \E S2 \in corrupt : e \in Consumers(S2)
             THEN e \notin DOMAIN files
             ELSE e \in DOMAIN files /\ files[e].specobjs = {d \in Dets : ~LeftOut(d)}

\* a build or a disk query of x = (kind, setup) starts in this step
Started(x) ==
  \/ Count(ncomp', x) > Count(ncomp, x)
  \/ Count(nquery', x) > Count(nquery, x)

\* C18, one step: a build or load of a calib_dict kind K for setup S starts
\* only in K's own block, for the current setup and with K absent from
\* calib_dict[S]; when the block completes K is present; in every state each
\* of the four is built at most once and queried on disk at most once per
\* setup, and a trace entry comes with the bpm, arc and bias entries.
C18_Step ==
  /\ \A x \in DOMAIN ncomp' \cup DOMAIN nquery' :
       (x[1] \in CKinds /\ Started(x)) =>
          /\ pc = x[1] /\ setup = x[2]
          /\ x[1] \notin DOMAIN calib_dict[x[2]]
  /\ (pc \in CKinds /\ pc' # Raise) => pc \in DOMAIN calib_dict'[setup]
  /\ \A x \in DOMAIN ncomp' : x[1] \in CKinds => ncomp'[x] <= 1
  /\ \A x \in DOMAIN nquery' : x[1] \in CKinds => nquery'[x] <= 1
  /\ \A S \in DOMAIN calib_dict' :
       "trace" \in DOMAIN calib_dict'[S] => DOMAIN calib_dict'[S] = CKinds

\* C18: bias, arc, bpm and trace are built or loaded only when absent from
\* calib_dict[setup] and are present once their block has completed.
C18_BuildOnlyWhenAbsent == [][C18_Step]_vars

\* C18 witness: with reuse on and nothing on disk, the second exposure has
\* passed the four blocks of a setup the first exposure already filled: one
\* disk query and one build of the trace, both made by the first exposure.
C18_Witness ==
  /\ sc = 2 /\ det = NDet /\ pc = "wvcalib" /\ cfg[2] = cfg[1]
  /\ masters.reuse /\ ~masters.disk
  /\ DOMAIN calib_dict[setup] = CKinds
  /\ Count(ncomp, <<"trace", setup>>) = 1 /\ Count(nquery, <<"trace", setup>>) = 1
  /\ Count(ncomp, <<"bpm", setup>>) = 1 /\ Count(nquery, <<"bpm", setup>>) = 0

\* the detector loop of exposure e has run to its end
LoopOver(e) ==
  \/ sc > e
  \/ sc = e /\ pc \in {"write", "release"}
  \/ AfterExposureLoop

\* C19: a standard X is reduced in the detector loop of the first science
\* exposure in table order whose first standard it is, once per usable
\* detector and with the frames of that exposure; a later exposure referring
\* to X neither reduces it again nor rebinds its calibration fields.
C19_ReducedWithFirstReferrer ==
  \A X \in DOMAIN stdslf :
    LET e0 == FirstRef(X) IN
    /\ stdslf[X].ref \in {0, e0}
    /\ LoopOver(e0) => \A d \in Dets : ~LeftOut(d) => stdslf[X].extracted[d]
    /\ \A d \in Dets :
         stdslf[X].extracted[d] =>
           /\ stdslf[X].by[d] = e0
           /\ Count(nstdred, <<X, d>>) = 1
           /\ \A f \in Copied :
                /\ StdField(X, f, d) = slf[e0][f][d]
                /\ StdField(X, f, d) = FrameOf(f, instr_setup(e0, d))

\* C19 witness: both exposures refer to the same standard and have another
\* configuration; the second has passed the co-reduction step of the last
\* detector and the standard still holds the reduction and frames of the first.
C19_Witness ==
  /\ sc = 2 /\ <<2, NDet>> \in coDone /\ cfg[2] # cfg[1]
  /\ WithStd = Sci /\ FirstStd(stdList[1]) = FirstStd(stdList[2])
  /\ stdslf[FirstStd(stdList[2])].by[NDet] = 1
  /\ stdslf[FirstStd(stdList[2])].ref = 1

\* C20, one step of the flux loop: the k-th step re-reads the file written
\* for the k-th science exposure, rewrites that file in place (same path,
\* same spectra, now fluxed) and touches no other file.
C20_Step ==
  (pc = "flux_sci" /\ pc' = "flux_sci") =>
     /\ DOMAIN files' = DOMAIN files
     /\ files[Basename(kk)].nwrite = 1 /\ files[Basename(kk)].stage = "raw"
     /\ files'[Basename(kk)].nread = 1 /\ files'[Basename(kk)].nwrite = 2
     /\ files'[Basename(kk)].stage = "fluxed"
     /\ files'[Basename(kk)].specobjs = files[Basename(kk)].specobjs
     /\ \A n \in DOMAIN files : n # Basename(kk) => files'[n] = files[n]

\* C20, the count: no file is re-read twice, and when the flux stage has run
\* to its end every science exposure's file was re-read and rewritten once.
C20_Once ==
  /\ \A n \in DOMAIN files : files[n].nread <= 1 /\ files[n].nwrite <= 2
  /\ (pc \in {"return", "done"} /\ sensfunc.built) =>
        \A e \in Sci : /\ Basename(e) \in DOMAIN files
                       /\ files[Basename(e)].nread = 1
                       /\ files[Basename(e)].nwrite = 2

\* C20: in the flux stage the file re-read for the k-th science exposure is
\* the file the exposure loop wrote for it, it is rewritten in place, and
\* every science exposure is re-read and rewritten exactly once.
C20_FluxRereadsOwnFile == [][C20_Step /\ C20_Once']_vars

\* C20 witness: the flux loop has rewritten the file of the first exposure
\* and is about to re-read the file of the last.
C20_Witness ==
  /\ pc = "flux_sci" /\ kk = NSci /\ flux = "archival"
  /\ files[Basename(1)].nread = 1 /\ files[Basename(1)].nwrite = 2
  /\ files[Basename(NSci)].nread = 0 /\ files[Basename(NSci)].nwrite = 1

\* C21 (as stated): after the exposure loop every standard of std_dict is
\* written exactly once, before the flux stage, each with the table row of
\* that same standard (its own key).
C21_StandardWrittenWithOwnRow ==
  /\ \A X \in DOMAIN stdfiles :
       /\ stdfiles[X].nwrite = 1
       /\ stdfiles[X].row = [bound |-> TRUE, list |-> FALSE, v |-> <<X>>]
  /\ pc \in {"flux_check", "flux_sens", "flux_sci", "return", "done"}
       => DOMAIN stdfiles = DOMAIN stdslf
  /\ DOMAIN stdfiles # {} => \A e \in Sci : ~sciexp[e]

\* C22 (as stated): every lookup of a science exposure's first standard in
\* std_dict finds an entry, and the flux stage refers only to names defined
\* at start-up: neither the co-reduction step nor a step of the flux stage
\* ends in an exception.
C22_NoUndefinedLookup ==
  [][(pc = "std" \/ pc = "flux_sens" \/ pc = "flux_sci") => pc' # Raise]_vars

\* the last detector of the mosaic that the detnum list does not leave out
LastUsable ==
  CHOOSE d \in Dets : ~LeftOut(d) /\ \A d2 \in Dets : ~LeftOut(d2) => d2 <= d

\* C23: a sensitivity function built from a standard was given the setup of
\* the last (exposure, detector) pair the exposure loop processed, whatever
\* the setup under which the chosen standard was reduced.
C23_SensfuncSetupIsLastProcessed ==
  (flux = "build" /\ sensfunc.built) =>
     /\ sensfunc.setup = instr_setup(numsci, LastUsable)
     /\ sensfunc.setup = setup

\* C23 witness: the chosen standard was reduced with the first exposure, of
\* configuration A; the builder was given the setup of the second exposure,
\* of configuration B, on the last detector.
C23_Witness ==
  /\ flux = "build" /\ sensfunc.built /\ pc = "flux_sci"
  /\ stdslf[sensfunc.std].ref = 1 /\ cfg[1] = "A" /\ cfg[NSci] = "B"
  /\ sensfunc.setup = <<"B", NDet>>

\* ------------------------------------------------------------------------
\* waveio
\* ------------------------------------------------------------------------
\* the names of `lines` whose line-list file exists, in the order of the list
Found == SelectSeq(lines, LAMBDA k : LineFile(k) \in isfile)

\* the position in `lines` of the first name whose file is missing
FirstMissing ==
  CHOOSE i \in DOMAIN lines :
    /\ LineFile(lines[i]) \notin isfile
    /\ \A j \in 1..(i - 1) : LineFile(lines[j]) \in isfile

\* the tables of the files found, stacked in the order of the list
Stacked == vstack([i \in DOMAIN Found |-> load_line_list(LineFile(Found[i]))])

\* C24: a finished call of load_line_lists.  With skip=False and a file
\* missing, the call ends at the first missing name with an IOError and gives
\* nothing back.  Otherwise the names without a file are passed over and the
\* tables of the others are stacked in the order of the list (the unknown
\* lines, when asked for, come after them); when no table was loaded the
\* result is None.
C24_MissingSkippedOrIOError ==
  wpc = "done" =>
    IF ~skip /\ Len(Found) < Len(lines)
      THEN /\ out = [how |-> "IOError", rows |-> << >>]
           /\ line = FirstMissing - 1
      ELSE IF Found = << >>
             THEN out = [how |-> "None", rows |-> << >>]
             ELSE /\ out.how = "table"
                  /\ SubSeq(out.rows, 1, Len(Stacked)) = Stacked
                  /\ ~unknown => out.rows = Stacked

\* bit k of the integer v is set
Bit(v, k) == (v \div (2 ^ (k - 1))) % 2 = 1

\* C25: a finished call of load_unknown_list.  With all=False the result is
\* the rows of the table, in the table's order, whose line_flag has the bit
\* of one or more of the requested lamps set, and no other row; with all=True
\* it is the whole table.  Every lamp's flag is a power of two.
C25_RowsOfRequestedLamps ==
  /\ \A k \in Lamps : \E n \in 0..NLamps : line_dict(k) = 2 ^ n
  /\ wpc = "done_unknown" =>
       /\ out.how = "table"
       /\ out.rows = IF all
                       THEN UNKNWNs
                       ELSE SelectSeq(UNKNWNs,
                              LAMBDA r : \E i \in DOMAIN lines :
                                           Bit(r.line_flag, lines[i]))

\* lamp 2 alone was asked for: the row seen in lamps 1 and 2 (flag 3) is
\* returned, the row seen in lamp 3 only (flag 4, larger than the flag of
\* lamp 2) is not
C25_Witness ==
  /\ wpc = "done_unknown" /\ ~all /\ lines = <<2>>
  /\ \E i \in DOMAIN out.rows : out.rows[i].line_flag = 3
  /\ \A i \in DOMAIN out.rows : out.rows[i].line_flag # 4
  /\ Len(out.rows) = 2 ^ (NLamps - 1)


====
